---- MODULE Spec2Model ----
(***************************************************************************)
(* rhttp: a resilient http.RoundTripper built as a chain of middleware.    *)
(* The module models the chain composer (config.go, transport.go), the     *)
(* three middleware transports as they are in transport.go, and the        *)
(* recording base transport of the package's tests.                        *)
(***************************************************************************)
EXTENDS Integers, Sequences, FiniteSets, TLC

\* ---------------------------------------------------------------- bounds
MaxOpts == 3        \* longest option list passed to a constructor
MaxScript == 2      \* longest list of programmed answers of the base
MaxFails == 2       \* consecutive failures per host the callers count up to

\* ------------------------------------------------------- documented values
MaxAttempts == 3    \* RetryConfig.MaxAttempts default

\* ------------------------------------------------------------- transports
Nil == "nil"
DefaultTransport == "http.DefaultTransport"
recordingRT == "recordingRT"
otelTransport == "otelTransport"
retryTransport == "retryTransport"
breakerTransport == "breakerTransport"

RetryConfig == [Enabled : BOOLEAN]
BreakerConfig == [Enabled : BOOLEAN]
OTelConfig == [Enabled : BOOLEAN]

Config == [Base : {DefaultTransport, recordingRT}, Retry : RetryConfig,
           Breaker : BreakerConfig, OTel : OTelConfig]

defaultConfig(base) ==
    [Base    |-> IF base = Nil THEN DefaultTransport ELSE base,
     Retry   |-> [Enabled |-> FALSE],
     Breaker |-> [Enabled |-> FALSE],
     OTel    |-> [Enabled |-> FALSE]]

\* An Option is a func(*Config); it is represented by the constructor that
\* made it and that constructor's argument, and applied by ApplyOption.
Option ==
    {[kind |-> "nil", arg |-> Nil]}
    \cup [kind : {"WithBaseTransport"}, arg : {Nil, recordingRT}]
    \cup [kind : {"WithRetry", "WithBreaker", "WithOTel"}, arg : [Enabled : BOOLEAN]]

WithBaseTransport(rt, c) ==
    [c EXCEPT !.Base = IF rt = Nil THEN DefaultTransport ELSE rt]

WithRetry(rc, c) == [c EXCEPT !.Retry = rc]

WithBreaker(bc, c) == [c EXCEPT !.Breaker = bc]

WithOTel(oc, c) == [c EXCEPT !.OTel = oc]

\* `if opt != nil { opt(&cfg) }`
ApplyOption(opt, c) ==
    CASE opt.kind = "nil"               -> c
      [] opt.kind = "WithBaseTransport" -> WithBaseTransport(opt.arg, c)
      [] opt.kind = "WithRetry"         -> WithRetry(opt.arg, c)
      [] opt.kind = "WithBreaker"       -> WithBreaker(opt.arg, c)
      [] opt.kind = "WithOTel"          -> WithOTel(opt.arg, c)

\* The options applied from the last one to the first.
RECURSIVE ApplyOptionsRightToLeft(_, _)
ApplyOptionsRightToLeft(os, c) ==
    IF os = <<>> THEN c
    ELSE ApplyOption(Head(os), ApplyOptionsRightToLeft(Tail(os), c))

\* `for _, opt := range opts`
RECURSIVE ApplyOptions(_, _)
ApplyOptions(os, c) ==
    IF os = <<>> THEN c ELSE ApplyOptions(Tail(os), ApplyOption(Head(os), c))

\* buildTransport with the retry and breaker wrappers applied in the other order.
buildTransportRetryInside(c) ==
    LET rt0 == <<c.Base>>
        rt1 == IF c.Retry.Enabled THEN <<retryTransport>> \o rt0 ELSE rt0
        rt2 == IF c.Breaker.Enabled THEN <<breakerTransport>> \o rt1 ELSE rt1
        rt3 == IF c.OTel.Enabled THEN <<otelTransport>> \o rt2 ELSE rt2
    IN  rt3

\* buildTransport that wraps in an otelTransport whether or not OTel is enabled.
buildTransportAlwaysOTel(c) ==
    LET rt0 == <<c.Base>>
        rt1 == IF c.Breaker.Enabled THEN <<breakerTransport>> \o rt0 ELSE rt0
        rt2 == IF c.Retry.Enabled THEN <<retryTransport>> \o rt1 ELSE rt1
    IN  <<otelTransport>> \o rt2

\* A transport is the sequence of its layers, outermost first; wrapping a
\* transport rt in a middleware puts the middleware in front of rt.
buildTransport(c) ==
    LET rt0 == <<c.Base>>
        rt1 == IF c.Breaker.Enabled THEN <<breakerTransport>> \o rt0 ELSE rt0
        rt2 == IF c.Retry.Enabled THEN <<retryTransport>> \o rt1 ELSE rt1
        rt3 == IF c.OTel.Enabled THEN <<otelTransport>> \o rt2 ELSE rt2
    IN  rt3


\* ------------------------------------------------------------------ state
Callers == {"c1", "c2"}
Hosts == {"X", "Y"}
Methods == {"GET", "POST"}

\* *http.Request: Body is nil or a one-shot stream, GetBody is nil or set.
Request == {r \in [method : Methods, host : Hosts, Body : BOOLEAN, GetBody : BOOLEAN] :
                r.GetBody => r.Body}
NoRequest == [method |-> Nil, host |-> Nil, Body |-> FALSE, GetBody |-> FALSE]

\* What one RoundTrip returns: (*http.Response, error).  status = 0 and
\* body = 0 stand for a nil response; body > 0 names the response's Body.
NoResult == [status |-> 0, err |-> Nil, body |-> 0]
ErrCircuitOpen == "ErrCircuitOpen"
Errors == {"net_error", "context.Canceled"}

\* What the base is programmed to answer: recordingRT's resp / err fields.
Outcome == [status : {200, 500}, err : {Nil}] \cup [status : {0}, err : Errors]

RECURSIVE SeqsUpTo(_, _)
SeqsUpTo(S, n) ==
    IF n = 0 THEN {<<>>}
    ELSE LET shorter == SeqsUpTo(S, n - 1)
         IN  shorter \cup {Append(q, x) : q \in {t \in shorter : Len(t) = n - 1}, x \in S}

Scripts == SeqsUpTo(Outcome, MaxScript)

VARIABLES
    given,      \* the base and options the constructor was called with
    cfg,        \* Config the chain was built from
    tr,         \* the built http.RoundTripper, outermost layer first; <<>> before
    pc,         \* per caller: "idle", "call" (going inward), "ret", "done"
    req,        \* per caller: the request handed to tr.RoundTrip
    ctx,        \* per caller: state of req.Context(): "active" or "canceled"
    depth,      \* per caller: index in tr of the layer that runs next
    arg,        \* per caller: the request the running layer was called with
    res,        \* per caller: the (resp, err) on its way outward
    script,     \* per caller: answers the base is programmed with, by call
    calls,      \* per caller: recordingRT.calls during this operation
    last,       \* per caller: recordingRT.last
    open,       \* per caller: response bodies created and not yet closed
    fails,      \* per host: consecutive failed calls the callers have seen
    after       \* per caller: fails[host] when the operation began

vars == <<given, cfg, tr, pc, req, ctx, depth, arg, res, script, calls, last,
          open, fails, after>>

build == <<given, cfg, tr>>
ops == <<pc, req, ctx, depth, arg, res, script, calls, last, open, fails, after>>

Idle ==
    /\ pc = [c \in Callers |-> "idle"]
    /\ req = [c \in Callers |-> NoRequest]
    /\ ctx = [c \in Callers |-> "active"]
    /\ depth = [c \in Callers |-> 0]
    /\ arg = [c \in Callers |-> NoRequest]
    /\ res = [c \in Callers |-> NoResult]
    /\ script = [c \in Callers |-> <<>>]
    /\ calls = [c \in Callers |-> 0]
    /\ last = [c \in Callers |-> NoRequest]
    /\ open = [c \in Callers |-> {}]
    /\ fails = [h \in Hosts |-> 0]
    /\ after = [c \in Callers |-> 0]

\* ------------------------------------------------------------ constructors
NoCall == [ctor |-> Nil, base |-> Nil, opts |-> <<>>]

InitBuild ==
    /\ given = NoCall
    /\ cfg = defaultConfig(Nil)
    /\ tr = <<>>
    /\ Idle

NewTransport(base, opts) ==
    /\ tr = <<>>
    /\ given' = [ctor |-> "NewTransport", base |-> base, opts |-> opts]
    /\ cfg' = ApplyOptions(opts, defaultConfig(base))
    /\ tr' = buildTransport(cfg')
    /\ UNCHANGED ops

NewClient(opts) ==
    /\ tr = <<>>
    /\ given' = [ctor |-> "NewClient", base |-> DefaultTransport, opts |-> opts]
    /\ cfg' = ApplyOptions(opts, defaultConfig(DefaultTransport))
    /\ tr' = buildTransport(cfg')
    /\ UNCHANGED ops

OptionLists == SeqsUpTo(Option, MaxOpts)

NextBuild ==
    \/ \E base \in {Nil, recordingRT}, opts \in OptionLists : NewTransport(base, opts)
    \/ \E opts \in OptionLists : NewClient(opts)

SpecBuild == InitBuild /\ [][NextBuild]_vars


\* --------------------------------------------------------------- requests
Min(a, b) == IF a < b THEN a ELSE b

\* The state after NewTransport(base, WithRetry(r), WithBreaker(b), WithOTel(o)).
InitWith(RC, BC, OC) ==
    /\ \E r \in RC, b \in BC, o \in OC :
         /\ given = [ctor |-> "NewTransport", base |-> recordingRT,
                     opts |-> <<[kind |-> "WithRetry", arg |-> r],
                                [kind |-> "WithBreaker", arg |-> b],
                                [kind |-> "WithOTel", arg |-> o]>>]
         /\ cfg = ApplyOptions(given.opts, defaultConfig(given.base))
         /\ tr = buildTransport(cfg)
    /\ Idle

\* A caller builds a request and calls tr.RoundTrip(req); the base has been
\* programmed with the answers s.
Call(c, r, k, s) ==
    /\ tr # <<>>
    /\ pc[c] = "idle"
    /\ pc' = [pc EXCEPT ![c] = "call"]
    /\ req' = [req EXCEPT ![c] = r]
    /\ ctx' = [ctx EXCEPT ![c] = k]
    /\ depth' = [depth EXCEPT ![c] = 1]
    /\ arg' = [arg EXCEPT ![c] = r]
    /\ script' = [script EXCEPT ![c] = s]
    /\ after' = [after EXCEPT ![c] = fails[r.host]]
    /\ UNCHANGED <<build, res, calls, last, open, fails>>

\* The caller's context is canceled while the operation is under way.
Cancel(c) ==
    /\ pc[c] \in {"call", "ret"}
    /\ ctx[c] = "active"
    /\ ctx' = [ctx EXCEPT ![c] = "canceled"]
    /\ UNCHANGED <<build, pc, req, depth, arg, res, script, calls, last, open, fails, after>>

\* `t.next.RoundTrip(req)`: the layer at depth[c] calls the next one with req.
CallNext(c, layer, r) ==
    /\ pc[c] = "call"
    /\ tr[depth[c]] = layer
    /\ depth' = [depth EXCEPT ![c] = @ + 1]
    /\ arg' = [arg EXCEPT ![c] = r]
    /\ UNCHANGED <<build, pc, req, ctx, res, script, calls, last, open, fails, after>>

\* `return resp, err`: the layer at depth[c] hands result r to its caller.
Return(c, layer, r) ==
    /\ pc[c] = "ret"
    /\ depth[c] >= 1
    /\ tr[depth[c]] = layer
    /\ depth' = [depth EXCEPT ![c] = @ - 1]
    /\ res' = [res EXCEPT ![c] = r]
    /\ UNCHANGED <<build, pc, req, ctx, arg, script, calls, last, open, fails, after>>

\* The default failure classification: `err != nil`, or status 500-599.
Failed(r) == r.err # Nil \/ (r.status >= 500 /\ r.status <= 599)

\* The methods retried by default.
Idempotent(m) == m \in {"GET", "HEAD", "PUT", "DELETE", "OPTIONS"}

\* `req.Body == nil` or `req.GetBody != nil`.
Replayable(r) == ~r.Body \/ r.GetBody

\* otelTransport.RoundTrip: `return t.next.RoundTrip(req)`.
OTelRoundTrip(c) == CallNext(c, otelTransport, arg[c])

\* An otelTransport that returns its own error in place of the one it got.
OTelReturnWrapped(c) ==
    Return(c, otelTransport,
           IF res[c].err = Nil THEN res[c] ELSE [res[c] EXCEPT !.err = "rhttp: request failed"])

OTelReturn(c) == Return(c, otelTransport, res[c])

\* retryTransport.RoundTrip: `return t.next.RoundTrip(req)`.
RetryRoundTrip(c) == CallNext(c, retryTransport, arg[c])

\* A retryTransport that, when `eligible`, sends a failed request inward again,
\* up to MaxAttempts times, closing the failed response's body or not.
RetryAgain(c, eligible, closeBody) ==
    /\ pc[c] = "ret"
    /\ depth[c] >= 1
    /\ tr[depth[c]] = retryTransport
    /\ IF eligible /\ Failed(res[c]) /\ calls[c] < MaxAttempts
       THEN /\ pc' = [pc EXCEPT ![c] = "call"]
            /\ depth' = [depth EXCEPT ![c] = @ + 1]
            /\ open' = [open EXCEPT ![c] = IF closeBody THEN @ \ {res[c].body} ELSE @]
            /\ UNCHANGED <<build, req, ctx, arg, res, script, calls, last, fails, after>>
       ELSE /\ depth' = [depth EXCEPT ![c] = @ - 1]
            /\ UNCHANGED <<build, pc, req, ctx, arg, res, script, calls, last, open,
                           fails, after>>

\* Retries whatever the method.
RetryReturnAnyMethod(c) == RetryAgain(c, Replayable(req[c]), TRUE)

\* Retries whether or not the body can be replayed.
RetryReturnAnyBody(c) == RetryAgain(c, Idempotent(req[c].method), TRUE)

\* Retries without closing the body of the response it drops.
RetryReturnNoClose(c) ==
    RetryAgain(c, Idempotent(req[c].method) /\ Replayable(req[c]), FALSE)

RetryReturn(c) == Return(c, retryTransport, res[c])

\* A breakerTransport that fails fast without calling the next layer.
BreakerRoundTripOpen(c) ==
    /\ pc[c] = "call"
    /\ tr[depth[c]] = breakerTransport
    /\ pc' = [pc EXCEPT ![c] = "ret"]
    /\ depth' = [depth EXCEPT ![c] = @ - 1]
    /\ res' = [res EXCEPT ![c] = [status |-> 0, err |-> ErrCircuitOpen, body |-> 0]]
    /\ UNCHANGED <<build, req, ctx, arg, script, calls, last, open, fails, after>>

\* breakerTransport.RoundTrip: `return t.next.RoundTrip(req)`.
BreakerRoundTrip(c) == CallNext(c, breakerTransport, arg[c])

BreakerReturn(c) == Return(c, breakerTransport, res[c])

\* What the base answers to the n-th call of caller c's operation: what was
\* programmed for it, or 200 when nothing is.
Answer(c, n) ==
    IF n >= 1 /\ n <= Len(script[c]) THEN script[c][n] ELSE [status |-> 200, err |-> Nil]

\* recordingRT.RoundTrip: count the call, keep the request, and answer what
\* was programmed for this call, or 200 with a fresh body when nothing is.
RecordingRoundTrip(c) ==
    /\ pc[c] = "call"
    /\ tr[depth[c]] = recordingRT
    /\ LET n == calls[c] + 1
           o == Answer(c, n)
           b == IF o.status > 0 THEN n ELSE 0
       IN  /\ calls' = [calls EXCEPT ![c] = n]
           /\ last' = [last EXCEPT ![c] = arg[c]]
           /\ res' = [res EXCEPT ![c] = [status |-> o.status, err |-> o.err, body |-> b]]
           /\ open' = [open EXCEPT ![c] = IF b > 0 THEN @ \cup {b} ELSE @]
    /\ pc' = [pc EXCEPT ![c] = "ret"]
    /\ depth' = [depth EXCEPT ![c] = @ - 1]
    /\ UNCHANGED <<build, req, ctx, arg, script, fails, after>>

\* `resp, err := tr.RoundTrip(req)`: the caller has the result.
Receive(c) ==
    /\ pc[c] = "ret"
    /\ depth[c] = 0
    /\ pc' = [pc EXCEPT ![c] = "done"]
    /\ fails' = [fails EXCEPT ![req[c].host] =
                    IF Failed(res[c]) THEN Min(@ + 1, MaxFails) ELSE 0]
    /\ UNCHANGED <<build, req, ctx, depth, arg, res, script, calls, last, open, after>>

\* `_ = resp.Body.Close()`, and the caller is ready for its next request.
Close(c) ==
    /\ pc[c] = "done"
    /\ pc' = [pc EXCEPT ![c] = "idle"]
    /\ req' = [req EXCEPT ![c] = NoRequest]
    /\ ctx' = [ctx EXCEPT ![c] = "active"]
    /\ arg' = [arg EXCEPT ![c] = NoRequest]
    /\ res' = [res EXCEPT ![c] = NoResult]
    /\ script' = [script EXCEPT ![c] = <<>>]
    /\ calls' = [calls EXCEPT ![c] = 0]
    /\ last' = [last EXCEPT ![c] = NoRequest]
    /\ open' = [open EXCEPT ![c] = {}]
    /\ after' = [after EXCEPT ![c] = 0]
    /\ UNCHANGED <<build, depth, fails>>

Ctxs == {"active", "canceled"}

Init == InitWith(RetryConfig, BreakerConfig, OTelConfig)

\* One caller, one operation after the other, to host X.
Next ==
    \E c \in {"c1"} :
        \/ \E r \in {q \in Request : q.host = "X"}, k \in Ctxs, s \in Scripts :
                Call(c, r, k, s)
        \/ Cancel(c)
        \/ OTelRoundTrip(c)
        \/ OTelReturn(c)
        \/ RetryRoundTrip(c)
        \/ RetryReturn(c)
        \/ BreakerRoundTrip(c)
        \/ BreakerReturn(c)
        \/ RecordingRoundTrip(c)
        \/ Receive(c)
        \/ Close(c)

Spec == Init /\ [][Next]_vars

\* Two callers at once behind a breaker: c1 sends GETs to host X, c2 to host Y;
\* the base answers each call 200, 500 or a transport error.
HostOf(c) == IF c = "c1" THEN "X" ELSE "Y"

InitConc == InitWith(RetryConfig, {[Enabled |-> TRUE]}, OTelConfig)

NextConc ==
    \E c \in Callers :
        \/ \E s \in {<<>>, <<[status |-> 500, err |-> Nil]>>,
                     <<[status |-> 0, err |-> "net_error"]>>} :
                Call(c, [method |-> "GET", host |-> HostOf(c), Body |-> FALSE,
                         GetBody |-> FALSE], "active", s)
        \/ OTelRoundTrip(c)
        \/ OTelReturn(c)
        \/ RetryRoundTrip(c)
        \/ RetryReturn(c)
        \/ BreakerRoundTrip(c)
        \/ BreakerReturn(c)
        \/ RecordingRoundTrip(c)
        \/ Receive(c)
        \/ Close(c)

SpecConc == InitConc /\ [][NextConc]_vars


\* ================================================================= claims
\* The feature `kind` is enabled by an option list: the last option of that
\* kind in the list carries Enabled = true.
EnabledBy(opts, kind) ==
    LET at == {i \in 1..Len(opts) : opts[i].kind = kind}
    IN  at # {} /\ opts[CHOOSE i \in at : \A j \in at : j <= i].arg.Enabled

AllLayers == <<otelTransport, retryTransport, breakerTransport>>

\* C1: when the options passed enable OTel, Retry and Breaker, in whatever
\* order, the built transport is OTel -> Retry -> Breaker -> Base.
C1_FixedOrder ==
    (/\ tr # <<>>
     /\ EnabledBy(given.opts, "WithOTel")
     /\ EnabledBy(given.opts, "WithRetry")
     /\ EnabledBy(given.opts, "WithBreaker"))
    => tr = <<otelTransport, retryTransport, breakerTransport, cfg.Base>>

\* C1 witness: the three features enabled by options passed Breaker, Retry, OTel.
C1_Witness ==
    /\ Len(given.opts) = 3
    /\ given.opts[1] = [kind |-> "WithBreaker", arg |-> [Enabled |-> TRUE]]
    /\ given.opts[2] = [kind |-> "WithRetry", arg |-> [Enabled |-> TRUE]]
    /\ given.opts[3] = [kind |-> "WithOTel", arg |-> [Enabled |-> TRUE]]
    /\ tr = <<otelTransport, retryTransport, breakerTransport, recordingRT>>

\* C2: the built transport has a wrapper for exactly the enabled features, in
\* the order OTel, Retry, Breaker, around the base; with none enabled it is
\* the base itself.
C2_ExactlyEnabled ==
    tr # <<>> =>
        LET On(w) == \/ w = otelTransport /\ EnabledBy(given.opts, "WithOTel")
                     \/ w = retryTransport /\ EnabledBy(given.opts, "WithRetry")
                     \/ w = breakerTransport /\ EnabledBy(given.opts, "WithBreaker")
        IN  /\ tr = SelectSeq(AllLayers, On) \o <<cfg.Base>>
            /\ (\A i \in 1..3 : ~On(AllLayers[i])) => tr = <<cfg.Base>>

\* C2 witness: retry enabled by one option and disabled by the next one leaves
\* the bare base transport.
C2_Witness ==
    /\ given.ctor = "NewTransport"
    /\ given.opts = <<[kind |-> "WithRetry", arg |-> [Enabled |-> TRUE]],
                      [kind |-> "WithRetry", arg |-> [Enabled |-> FALSE]]>>
    /\ tr = <<recordingRT>>


\* C3: whatever features are enabled, when the base answers 200 with no
\* error, one RoundTrip calls the base exactly once, with the caller's
\* request, and returns that response with a nil error.
C3_OneBaseCallOnSuccess ==
    \A c \in Callers :
        (pc[c] = "done" /\ Answer(c, 1) = [status |-> 200, err |-> Nil])
        => /\ calls[c] = 1
           /\ last[c] = req[c]
           /\ res[c] = [status |-> 200, err |-> Nil, body |-> 1]

\* C3 witness: a 200 has come back through OTel, Retry and Breaker.
C3_Witness ==
    /\ tr = <<otelTransport, retryTransport, breakerTransport, recordingRT>>
    /\ pc["c1"] = "done"
    /\ res["c1"].status = 200
    /\ calls["c1"] = 1

\* C4: with retry enabled, a GET without body whose inner layer answers
\* 500, 500, 200 ends with the caller holding the 200 after exactly 3 calls.
C4_Scenario1 ==
    \A c \in Callers :
        (/\ pc[c] = "done"
         /\ cfg.Retry.Enabled /\ ~cfg.Breaker.Enabled
         /\ req[c].method = "GET" /\ ~req[c].Body
         /\ ctx[c] = "active"
         /\ script[c] = <<[status |-> 500, err |-> Nil], [status |-> 500, err |-> Nil]>>)
        => res[c].status = 200 /\ res[c].err = Nil /\ calls[c] = 3

\* C5: with retry enabled, a POST reaches the inner layer exactly once whatever
\* the answer, and that answer is what the caller gets.
C5_PostOnce ==
    \A c \in Callers :
        (pc[c] = "done" /\ cfg.Retry.Enabled /\ req[c].method = "POST")
        => /\ calls[c] = 1
           /\ res[c].status = Answer(c, 1).status
           /\ res[c].err = Answer(c, 1).err

\* C5 witness: a POST answered 500 has returned through the retry layer.
C5_Witness ==
    /\ cfg.Retry.Enabled
    /\ pc["c1"] = "done"
    /\ req["c1"].method = "POST"
    /\ res["c1"].status = 500
    /\ calls["c1"] = 1

\* C6: with retry enabled, a request with a body and no GetBody is attempted
\* exactly once, whatever its method and the outcome.
C6_OneShotBodyOnce ==
    \A c \in Callers :
        (pc[c] = "done" /\ cfg.Retry.Enabled /\ req[c].Body /\ ~req[c].GetBody)
        => calls[c] = 1

\* C6 witness: a GET with a one-shot body, answered with a transport error,
\* has returned through the retry layer.
C6_Witness ==
    /\ cfg.Retry.Enabled
    /\ pc["c1"] = "done"
    /\ req["c1"].method = "GET"
    /\ req["c1"].Body /\ ~req["c1"].GetBody
    /\ res["c1"].err = "net_error"
    /\ calls["c1"] = 1

\* C7: the retry layer sends an attempt inward only while fewer than
\* MaxAttempts have been sent and the request's context is not canceled.
C7_AttemptBudget ==
    [][\A c \in Callers :
          RetryRoundTrip(c) => (calls[c] < MaxAttempts /\ ctx[c] = "active")]_vars

\* C8: behind a breaker, a call to a host begun after 2 consecutive failed
\* calls to it fails fast with ErrCircuitOpen and 0 inner calls, while a call
\* to a host without failures, answered 200, succeeds with one inner call.
C8_TripPerHost ==
    \A c \in Callers :
        (pc[c] = "done" /\ cfg.Breaker.Enabled)
        => /\ after[c] >= 2 => (res[c].err = ErrCircuitOpen /\ calls[c] = 0)
           /\ (after[c] = 0 /\ Answer(c, 1).status = 200)
                => (res[c].status = 200 /\ res[c].err = Nil /\ calls[c] = 1)

\* C9: an operation never has more than one open response body, and when it
\* returns, the only body still open is the one handed to the caller.
C9_OneOpenBody ==
    \A c \in Callers :
        /\ Cardinality(open[c]) <= 1
        /\ pc[c] = "done" => open[c] \subseteq {res[c].body}

\* C9 witness: a GET answered 500 has returned through the retry layer with
\* its body still open.
C9_Witness ==
    /\ cfg.Retry.Enabled
    /\ pc["c1"] = "done"
    /\ req["c1"].method = "GET" /\ ~req["c1"].Body
    /\ res["c1"].status = 500
    /\ open["c1"] = {res["c1"].body}

\* C10: when the operation ends with an error, or its last attempt did, the
\* caller's error is the error the base returned to the last call made.
C10_LastError ==
    \A c \in Callers :
        (pc[c] = "done" /\ (res[c].err # Nil \/ Answer(c, calls[c]).err # Nil))
        => /\ calls[c] >= 1
           /\ res[c].err = Answer(c, calls[c]).err

\* C10 witness: context.Canceled from the base has come out of the full chain.
C10_Witness ==
    /\ tr = <<otelTransport, retryTransport, breakerTransport, recordingRT>>
    /\ pc["c1"] = "done"
    /\ ctx["c1"] = "canceled"
    /\ res["c1"].err = "context.Canceled"


\* The last option of a kind in an option list, when there is one.
HasOption(opts, kind) == \E i \in 1..Len(opts) : opts[i].kind = kind

LastOption(opts, kind) ==
    opts[CHOOSE i \in 1..Len(opts) :
            /\ opts[i].kind = kind
            /\ \A j \in 1..Len(opts) : opts[j].kind = kind => j <= i]

\* C11: the Config a chain is built from has, for each feature, the setting of
\* the last option of its kind, or disabled when there is none; its base is
\* the transport of the last WithBaseTransport, or the constructor's when
\* there is none, with http.DefaultTransport in place of nil; nil options
\* count for nothing, and the innermost transport of the chain is never nil.
C11_OptionsLeftToRight ==
    tr # <<>> =>
        LET opts == given.opts
            Setting(kind) == IF HasOption(opts, kind) THEN LastOption(opts, kind).arg
                             ELSE [Enabled |-> FALSE]
            base == IF HasOption(opts, "WithBaseTransport")
                    THEN LastOption(opts, "WithBaseTransport").arg
                    ELSE given.base
        IN  /\ cfg.Retry = Setting("WithRetry")
            /\ cfg.Breaker = Setting("WithBreaker")
            /\ cfg.OTel = Setting("WithOTel")
            /\ cfg.Base = IF base = Nil THEN DefaultTransport ELSE base
            /\ given.ctor = "NewClient" => given.base = DefaultTransport
            /\ tr[Len(tr)] = cfg.Base
            /\ tr[Len(tr)] # Nil

\* C11 witness: NewClient given a base, a nil option and WithBaseTransport(nil)
\* ends with http.DefaultTransport alone.
C11_Witness ==
    /\ given.ctor = "NewClient"
    /\ given.opts = <<[kind |-> "WithBaseTransport", arg |-> recordingRT],
                      [kind |-> "nil", arg |-> Nil],
                      [kind |-> "WithBaseTransport", arg |-> Nil]>>
    /\ cfg.Base = DefaultTransport
    /\ tr = <<DefaultTransport>>

====
